---- MODULE Spec2Model ----
(***************************************************************************)
(* Model of src/utils.py: plot_decision_boundary(X, Y, predict, title,     *)
(* n_cells).  One call is a sequence of steps driven by pc: the four       *)
(* validation checks (lines 17-24), the axis bounds (26-27), the grid      *)
(* construction (31-33), the fill loop (34-36, one step per cell) and the  *)
(* four pyplot calls (37-43).                                              *)
(*                                                                         *)
(* An ndarray is a record [shape, data] with data in row-major order.     *)
(* Grid coordinates are exact rationals <<numerator, denominator>> with a  *)
(* positive denominator; float64 rounding is not modelled.                 *)
(***************************************************************************)
EXTENDS Integers, Sequences, FiniteSets, TLC

\* ------------------------------------------------------------------ bounds
MaxRows == 2
MaxN == 3
MaxParN == 2
NumWorkers == 2

\* ------------------------------------------------- values tried as inputs
FeatVals == {0, 1}
LabelVals == {0, 1, 2}
Titles == {"Decision Boundary", "Custom"}

\* ------------------------------------------------------------ error texts
ErrXShape == "X must be ann nx2 array of examples"
ErrYShape == "Y must be an 1 dimensional array of classifications"
ErrRows == "X and Y must have the same number of rows"
ErrLabels == "All values of Y must be either 0 or 1"
ErrEmptyMin == "zero-size array to reduction operation minimum which has no identity"
ErrContourShape == "Input z must be at least a (2, 2) shaped array"
ErrPredict == "error raised by predict"

VARIABLES
  pc,          \* position of the call: idle, check1..check4, bounds, grid, fill,
               \* contourf, scatter, title, show, returned, raised
  X, Y, predict, title, n_cells,        \* the arguments of the call
  x_min, x_max, y_min, y_max,           \* lines 26-27
  xx, yy, y_hat,                        \* lines 31-33
  i, j,                                 \* loop indices, lines 34-35
  err,                                  \* the exception leaving the call, "" if none
  retval,                               \* what the call returned
  predict_log,                          \* the invocations predict has received in this call
  plt_log,                              \* the pyplot calls made in this call
  checked,                              \* the validation checks evaluated in this call
  call_no,                              \* how many calls the caller has started
  prev,                                 \* grid and predict arguments of the caller's previous call
  par_hat, par_taken, par_hold          \* the any-order fill: grid, cells taken, per-worker result in flight

vars == <<pc, X, Y, predict, title, n_cells, x_min, x_max, y_min, y_max, xx, yy,
          y_hat, i, j, err, retval, predict_log, plt_log, checked, call_no, prev,
          par_hat, par_taken, par_hold>>

args == <<X, Y, predict, title, n_cells>>
locals == <<x_min, x_max, y_min, y_max, xx, yy, y_hat, i, j>>
parvars == <<par_hat, par_taken, par_hold>>
caller == <<call_no, prev>>

\* --------------------------------------------------------------- rationals
RatLess(a, b) == a[1] * b[2] < b[1] * a[2]
RatEq(a, b) == a[1] * b[2] = b[1] * a[2]

\* ----------------------------------------------------------------- arrays
Empty == [k \in {} |-> 0]

range(n) == 0 .. (n - 1)

ndim(A) == Len(A.shape)

Size(shape) ==
  IF Len(shape) = 0 THEN 1
  ELSE IF Len(shape) = 1 THEN shape[1]
  ELSE IF Len(shape) = 2 THEN shape[1] * shape[2]
  ELSE shape[1] * shape[2] * shape[3]

\* X[:, c] of an array of shape (r, 2)
Column(A, c) == [k \in range(A.shape[1]) |-> A.data[2 * k + c + 1]]

ArrMin(col) == CHOOSE m \in {col[k] : k \in DOMAIN col} : \A k \in DOMAIN col : m <= col[k]
ArrMax(col) == CHOOSE m \in {col[k] : k \in DOMAIN col} : \A k \in DOMAIN col : m >= col[k]

zeros(n) == [r \in range(n) |-> [c \in range(n) |-> 0]]

linspace_open(start, stop, num) ==
  [k \in range(num) |-> <<start * num + k * (stop - start), num>>]

\* np.linspace(start, stop, num): num = 1 gives [start]; otherwise the step is
\* (stop - start) / (num - 1) and the last element is set to stop.
linspace(start, stop, num) ==
  [k \in range(num) |->
     IF num = 1 THEN <<start, 1>>
     ELSE IF k = num - 1 THEN <<stop, 1>>
     ELSE <<start * (num - 1) + k * (stop - start), num - 1>>]

\* ------------------------------------------------------ validation, 17-24
BadXShape_cols_unchecked(A) == ndim(A) # 2

BadXShape(A) == ndim(A) # 2 \/ A.shape[2] # 2

BadYShape(A) == ndim(A) # 1

RowsDiffer_unchecked(A, B) == FALSE

RowsDiffer(A, B) == A.shape[1] # B.shape[1]

BadLabels(A) == ~ (\A k \in 1 .. Len(A.data) : A.data[k] = 0 \/ A.data[k] = 1)

\* ------------------------------------------------- the predict capability
\* A deterministic predict is one of these; it returns a value or raises.
NonRaising == {"x_gt_1.5", "x_gt_y"}
Predicts == NonRaising \cup {"raises_x_gt_1.5", "raises"}

\* batch is the argument as passed: one row of two coordinates
PredictCall(kind, batch) ==
  LET px == batch[1][1]
      py == batch[1][2]
  IN  IF kind = "x_gt_1.5"
        THEN [raised |-> FALSE, value |-> IF RatLess(<<3, 2>>, px) THEN 1 ELSE 0]
      ELSE IF kind = "x_gt_y"
        THEN [raised |-> FALSE, value |-> IF RatLess(py, px) THEN 1 ELSE 0]
      ELSE IF kind = "raises_x_gt_1.5"
        THEN [raised |-> RatLess(<<3, 2>>, px), value |-> 0]
      ELSE [raised |-> TRUE, value |-> 0]

\* ------------------------------------------------------------ input sets
SeqsOf(S, n) == [1 .. n -> S]

Arrays(shapes, vals) ==
  UNION {{[shape |-> s, data |-> d] : d \in SeqsOf(vals, Size(s))} : s \in shapes}

Features ==
  Arrays({<<r, 2>> : r \in 0 .. MaxRows}, FeatVals)
    \cup Arrays({<<r>> : r \in 0 .. MaxRows}, {0})
    \cup Arrays({<<r, 3>> : r \in 0 .. MaxRows}, {0})
    \cup Arrays({<<1, 2, 1>>}, {0})

Labels ==
  Arrays({<<r>> : r \in 0 .. MaxRows}, LabelVals)
    \cup Arrays({<<>>, <<1, 1>>, <<2, 1>>}, {0, 2})

NoPrev == [valid |-> FALSE, y_hat |-> Empty, log |-> <<>>]

FreshLocals ==
  /\ x_min' = 0 /\ x_max' = 0 /\ y_min' = 0 /\ y_max' = 0
  /\ xx' = Empty /\ yy' = Empty /\ y_hat' = Empty
  /\ i' = 0 /\ j' = 0

FreshCall ==
  /\ pc' = "check1"
  /\ FreshLocals
  /\ err' = "" /\ retval' = ""
  /\ predict_log' = <<>> /\ plt_log' = <<>> /\ checked' = <<>>

Init ==
  /\ pc = "idle"
  /\ X = [shape |-> <<0, 2>>, data |-> <<>>]
  /\ Y = [shape |-> <<0>>, data |-> <<>>]
  /\ predict = "x_gt_1.5" /\ title = "Decision Boundary" /\ n_cells = 1
  /\ x_min = 0 /\ x_max = 0 /\ y_min = 0 /\ y_max = 0
  /\ xx = Empty /\ yy = Empty /\ y_hat = Empty
  /\ i = 0 /\ j = 0
  /\ err = "" /\ retval = ""
  /\ predict_log = <<>> /\ plt_log = <<>> /\ checked = <<>>
  /\ call_no = 0 /\ prev = NoPrev
  /\ par_hat = Empty /\ par_taken = {} /\ par_hold = [w \in 1 .. NumWorkers |-> <<>>]

\* ----------------------------------------------------------- the caller
\* The caller invokes plot_decision_boundary with some arguments.
Call ==
  /\ pc = "idle"
  /\ \E a \in Features, b \in Labels, p \in Predicts, t \in Titles, n \in 1 .. MaxN :
       /\ X' = a /\ Y' = b /\ predict' = p /\ title' = t /\ n_cells' = n
  /\ FreshCall
  /\ call_no' = 1
  /\ UNCHANGED <<prev, parvars>>

\* The caller invokes it a second time with the same arguments.
Repeat ==
  /\ pc \in {"returned", "raised"}
  /\ call_no = 1
  /\ call_no' = 2
  /\ prev' = [valid |-> TRUE, y_hat |-> y_hat, log |-> predict_log]
  /\ FreshCall
  /\ UNCHANGED <<args, parvars>>

Raise(e) == pc' = "raised" /\ err' = e

\* ------------------------------------------------------------ lines 17-24
Check1 ==
  /\ pc = "check1"
  /\ checked' = Append(checked, 1)
  /\ IF BadXShape(X) THEN Raise(ErrXShape) ELSE pc' = "check2" /\ err' = err
  /\ UNCHANGED <<args, locals, retval, predict_log, plt_log, caller, parvars>>

Check2 ==
  /\ pc = "check2"
  /\ checked' = Append(checked, 2)
  /\ IF BadYShape(Y) THEN Raise(ErrYShape) ELSE pc' = "check3" /\ err' = err
  /\ UNCHANGED <<args, locals, retval, predict_log, plt_log, caller, parvars>>

Check3 ==
  /\ pc = "check3"
  /\ checked' = Append(checked, 3)
  /\ IF RowsDiffer(X, Y) THEN Raise(ErrRows) ELSE pc' = "check4" /\ err' = err
  /\ UNCHANGED <<args, locals, retval, predict_log, plt_log, caller, parvars>>

Check4 ==
  /\ pc = "check4"
  /\ checked' = Append(checked, 4)
  /\ IF BadLabels(Y) THEN Raise(ErrLabels) ELSE pc' = "bounds" /\ err' = err
  /\ UNCHANGED <<args, locals, retval, predict_log, plt_log, caller, parvars>>

\* ------------------------------------------------------------ lines 26-27
\* min() and max() of a column with no elements raise.
ComputeBounds_in_place ==
  /\ pc = "bounds"
  /\ IF X.shape[1] = 0
       THEN /\ Raise(ErrEmptyMin)
            /\ UNCHANGED <<X, x_min, x_max, y_min, y_max>>
       ELSE /\ X' = [X EXCEPT !.data = [k \in 1 .. Len(X.data) |-> X.data[k] - 1]]
            /\ x_min' = ArrMin(Column(X', 0)) /\ x_max' = ArrMax(Column(X', 0)) + 2
            /\ y_min' = ArrMin(Column(X', 1)) /\ y_max' = ArrMax(Column(X', 1)) + 2
            /\ pc' = "grid" /\ err' = err
  /\ UNCHANGED <<Y, predict, title, n_cells, xx, yy, y_hat, i, j, retval,
                 predict_log, plt_log, checked, caller, parvars>>

ComputeBounds ==
  /\ pc = "bounds"
  /\ IF X.shape[1] = 0
       THEN /\ Raise(ErrEmptyMin)
            /\ UNCHANGED <<X, x_min, x_max, y_min, y_max>>
       ELSE /\ x_min' = ArrMin(Column(X, 0)) - 1 /\ x_max' = ArrMax(Column(X, 0)) + 1
            /\ y_min' = ArrMin(Column(X, 1)) - 1 /\ y_max' = ArrMax(Column(X, 1)) + 1
            /\ X' = X
            /\ pc' = "grid" /\ err' = err
  /\ UNCHANGED <<Y, predict, title, n_cells, xx, yy, y_hat, i, j, retval,
                 predict_log, plt_log, checked, caller, parvars>>

\* for i in range(n_cells) (line 34) and for j in range(n_cells) (line 35)
outer_range(n) == range(n)

inner_range_short(n) == range(n - 1)

inner_range(n) == range(n)

\* ------------------------------------------------------------ lines 31-33
BuildGrid ==
  /\ pc = "grid"
  /\ xx' = linspace(x_min, x_max, n_cells)
  /\ yy' = linspace(y_min, y_max, n_cells)
  /\ y_hat' = zeros(n_cells)
  /\ i' = 0 /\ j' = 0
  /\ pc' = IF outer_range(n_cells) # {} /\ inner_range(n_cells) # {} THEN "fill" ELSE "contourf"
  /\ UNCHANGED <<args, x_min, x_max, y_min, y_max, err, retval, predict_log,
                 plt_log, checked, caller, parvars>>

\* ------------------------------------------------------------ lines 34-36
\* the argument of predict for cell (ci, cj): [[xx[i], yy[j]]]
CellRecord_swapped(gx, gy, ci, cj) == << <<gx[cj], gy[ci]>> >>

CellRecord(gx, gy, ci, cj) == << <<gx[ci], gy[cj]>> >>

\* y_hat[j, i] = v
StoreCell_transposed(g, ci, cj, v) == [g EXCEPT ![ci][cj] = v]

StoreCell(g, ci, cj, v) == [g EXCEPT ![cj][ci] = v]

\* the loop indices after the body has run for (i, j); pc leaves the loop
\* when the outer range is exhausted
Advance ==
  IF j + 1 \in inner_range(n_cells)
    THEN i' = i /\ j' = j + 1 /\ pc' = "fill"
  ELSE IF i + 1 \in outer_range(n_cells)
    THEN i' = i + 1 /\ j' = 0 /\ pc' = "fill"
  ELSE i' = i /\ j' = j /\ pc' = "contourf"

FillStep_swallow ==
  /\ pc = "fill"
  /\ LET batch == CellRecord(xx, yy, i, j)
         r == PredictCall(predict, batch)
     IN  /\ predict_log' = Append(predict_log, [cell |-> <<i, j>>, arg |-> batch])
         /\ y_hat' = StoreCell(y_hat, i, j, r.value)
         /\ Advance
         /\ err' = err
  /\ UNCHANGED <<args, x_min, x_max, y_min, y_max, xx, yy, retval, plt_log,
                 checked, caller, parvars>>

\* one iteration of the inner loop body; an exception of predict is not caught
FillStep ==
  /\ pc = "fill"
  /\ LET batch == CellRecord(xx, yy, i, j)
         r == PredictCall(predict, batch)
     IN  /\ predict_log' = Append(predict_log, [cell |-> <<i, j>>, arg |-> batch])
         /\ IF r.raised
              THEN Raise(ErrPredict) /\ UNCHANGED <<y_hat, i, j>>
              ELSE /\ y_hat' = StoreCell(y_hat, i, j, r.value)
                   /\ Advance
                   /\ err' = err
  /\ UNCHANGED <<args, x_min, x_max, y_min, y_max, xx, yy, retval, plt_log,
                 checked, caller, parvars>>

\* ------------------------------------------------------------ lines 37-43
\* pyplot's contourf rejects a z with fewer than 2 rows or 2 columns.
Contourf ==
  /\ pc = "contourf"
  /\ IF n_cells < 2
       THEN Raise(ErrContourShape) /\ plt_log' = plt_log
       ELSE /\ plt_log' = Append(plt_log, [fn |-> "contourf", a |-> <<xx, yy, y_hat>>])
            /\ pc' = "scatter" /\ err' = err
  /\ UNCHANGED <<args, locals, retval, predict_log, checked, caller, parvars>>

Scatter_omitted ==
  /\ pc = "scatter"
  /\ pc' = "title"
  /\ UNCHANGED <<args, locals, err, retval, predict_log, plt_log, checked, caller, parvars>>

Scatter ==
  /\ pc = "scatter"
  /\ plt_log' = Append(plt_log, [fn |-> "scatter", a |-> <<Column(X, 0), Column(X, 1), Y.data>>])
  /\ pc' = "title"
  /\ UNCHANGED <<args, locals, err, retval, predict_log, checked, caller, parvars>>

Title ==
  /\ pc = "title"
  /\ plt_log' = Append(plt_log, [fn |-> "title", a |-> <<title>>])
  /\ pc' = "show"
  /\ UNCHANGED <<args, locals, err, retval, predict_log, checked, caller, parvars>>

\* plt.show() returns, then the function falls off its end and returns None
Show ==
  /\ pc = "show"
  /\ plt_log' = Append(plt_log, [fn |-> "show", a |-> <<>>])
  /\ pc' = "returned"
  /\ retval' = "None"
  /\ UNCHANGED <<args, locals, err, predict_log, checked, caller, parvars>>

\* ------------------------------------------------- the any-order fill
\* Section 5 of the specification allows the n*n cells to be evaluated in any
\* order by several workers.  Here the workers fill a second grid, par_hat,
\* from the same xx, yy and predict once the reference loop has finished.
Workers == 1 .. NumWorkers

Cells == range(n_cells) \X range(n_cells)

\* the valid inputs of the any-order runs: one sample, a predict that returns
ParFeatures == Arrays({<<1, 2>>}, FeatVals)

CallPar ==
  /\ pc = "idle"
  /\ \E a \in ParFeatures, p \in NonRaising, n \in 1 .. MaxParN :
       /\ X' = a /\ predict' = p /\ n_cells' = n
  /\ Y' = [shape |-> <<1>>, data |-> <<0>>]
  /\ title' = "Decision Boundary"
  /\ FreshCall
  /\ call_no' = 1
  /\ UNCHANGED <<prev, parvars>>

ParStart ==
  /\ pc = "contourf"
  /\ pc' = "par"
  /\ par_hat' = zeros(n_cells)
  /\ par_taken' = {}
  /\ UNCHANGED <<args, locals, err, retval, predict_log, plt_log, checked, caller, par_hold>>

\* a free worker takes a cell nobody has taken and evaluates predict on it
ParTake ==
  /\ pc = "par"
  /\ \E w \in Workers, c \in Cells \ par_taken :
       /\ par_hold[w] = <<>>
       /\ par_taken' = par_taken \cup {c}
       /\ par_hold' = [par_hold EXCEPT
            ![w] = <<c[1], c[2], PredictCall(predict, << <<xx[c[1]], yy[c[2]]>> >>).value>>]
  /\ UNCHANGED <<pc, args, locals, err, retval, predict_log, plt_log, checked, caller, par_hat>>

\* a worker writes its result at row j, column i
ParStore ==
  /\ pc = "par"
  /\ \E w \in Workers :
       /\ par_hold[w] # <<>>
       /\ par_hat' = [par_hat EXCEPT ![par_hold[w][2]][par_hold[w][1]] = par_hold[w][3]]
       /\ par_hold' = [par_hold EXCEPT ![w] = <<>>]
  /\ UNCHANGED <<pc, args, locals, err, retval, predict_log, plt_log, checked, caller, par_taken>>

ParDone == pc = "par" /\ par_taken = Cells /\ \A w \in Workers : par_hold[w] = <<>>

Next ==
  \/ Call \/ Repeat
  \/ Check1 \/ Check2 \/ Check3 \/ Check4
  \/ ComputeBounds \/ BuildGrid \/ FillStep
  \/ Contourf \/ Scatter \/ Title \/ Show

Spec == Init /\ [][Next]_vars

NextPar ==
  \/ CallPar
  \/ Check1 \/ Check2 \/ Check3 \/ Check4
  \/ ComputeBounds \/ BuildGrid \/ FillStep
  \/ ParStart \/ ParTake \/ ParStore

SpecPar == Init /\ [][NextPar]_vars

\* ===================================================================
\* Properties
\* ===================================================================
\* The four violation classes, read off the arguments themselves.
IsNx2(A) == Len(A.shape) = 2 /\ A.shape[2] = 2
IsRank1(A) == Len(A.shape) = 1
CountsDiffer(A, B) ==
  IF Len(A.shape) = 0 \/ Len(B.shape) = 0 THEN TRUE ELSE A.shape[1] # B.shape[1]
AllBinary(A) == \A k \in DOMAIN A.data : A.data[k] \in {0, 1}

Violations ==
  (IF IsNx2(X) THEN {} ELSE {1})
    \cup (IF IsRank1(Y) THEN {} ELSE {2})
    \cup (IF CountsDiffer(X, Y) THEN {3} ELSE {})
    \cup (IF AllBinary(Y) THEN {} ELSE {4})

FirstViolation == CHOOSE c \in Violations : \A d \in Violations : c <= d

ClassError(c) ==
  IF c = 1 THEN ErrXShape
  ELSE IF c = 2 THEN ErrYShape
  ELSE IF c = 3 THEN ErrRows
  ELSE ErrLabels

InCall == pc # "idle"
Validating == pc \in {"check1", "check2", "check3", "check4"}
GridBuilt == pc \in {"fill", "contourf", "scatter", "title", "show", "returned"}
LoopDone == pc \in {"contourf", "scatter", "title", "show", "returned"}
Ended == pc \in {"returned", "raised"}

PlotFns == [k \in DOMAIN plt_log |-> plt_log[k].fn]
RenderOrder == <<"contourf", "scatter", "title", "show">>

\* C1: an input with exactly one of the four violations never gets past
\* validation: the call is still validating or has aborted with that class's
\* error, predict has been invoked zero times and no pyplot call has been made.
C1_SingleViolationAborts ==
  (InCall /\ Cardinality(Violations) = 1) =>
    /\ Validating \/ pc = "raised"
    /\ pc = "raised" => \A c \in Violations : err = ClassError(c)
    /\ predict_log = <<>>
    /\ plt_log = <<>>

W_C1 ==
  /\ pc = "raised" /\ Violations = {3} /\ err = ErrRows
  /\ predict_log = <<>> /\ plt_log = <<>>

\* C2: whenever the arguments pass all four checks and predict never raises,
\* the call raises nothing, and once it has ended all four pyplot calls have
\* been made.
C2_ValidInputRenders ==
  (InCall /\ Violations = {} /\ predict \in NonRaising) =>
    /\ pc # "raised"
    /\ pc = "returned" => PlotFns = RenderOrder

\* C3: once the fill loop has finished, predict has been invoked exactly
\* n_cells * n_cells times, every cell (i, j) exactly once, each time with a
\* one-row two-column record [[xx[i], yy[j]]].
C3_EveryCellOnce ==
  LoopDone =>
    /\ Len(predict_log) = n_cells * n_cells
    /\ \A ci \in 0 .. n_cells - 1, cj \in 0 .. n_cells - 1 :
         /\ Cardinality({k \in DOMAIN predict_log : predict_log[k].cell = <<ci, cj>>}) = 1
         /\ Cardinality({k \in DOMAIN predict_log :
                           predict_log[k].arg[1] = <<xx[ci], yy[cj]>>}) = 1
    /\ \A k \in DOMAIN predict_log :
         /\ Len(predict_log[k].arg) = 1
         /\ Len(predict_log[k].arg[1]) = 2
         /\ predict_log[k].arg[1] = <<xx[predict_log[k].cell[1]], yy[predict_log[k].cell[2]]>>

W_C3 == pc = "returned" /\ n_cells >= 2 /\ Len(predict_log) = n_cells * n_cells

\* C4: once the fill loop has finished, the value at grid row j, column i is
\* predict's result on (xx[i], yy[j]), and a predict that looks only at the x
\* coordinate gives a grid whose rows are all equal.
C4_RowJColumnI ==
  LoopDone =>
    /\ \A ci \in 0 .. n_cells - 1, cj \in 0 .. n_cells - 1 :
         y_hat[cj][ci] = PredictCall(predict, << <<xx[ci], yy[cj]>> >>).value
    /\ predict = "x_gt_1.5" =>
         \A r1 \in 0 .. n_cells - 1, r2 \in 0 .. n_cells - 1 : y_hat[r1] = y_hat[r2]

W_C4 ==
  /\ LoopDone /\ predict = "x_gt_1.5" /\ n_cells >= 2
  /\ y_hat[0][0] = 0 /\ y_hat[0][n_cells - 1] = 1
  /\ y_hat[n_cells - 1][0] = 0 /\ y_hat[n_cells - 1][n_cells - 1] = 1

\* What the claim about the coordinate sequences asks of one axis.
StrictlyIncreasing(g) ==
  \A k1 \in DOMAIN g, k2 \in DOMAIN g : k1 < k2 => RatLess(g[k1], g[k2])

AxisSpans(g, col) ==
  /\ DOMAIN g = 0 .. n_cells - 1
  /\ StrictlyIncreasing(g)
  /\ RatEq(g[0], <<ArrMin(col) - 1, 1>>)
  /\ RatEq(g[n_cells - 1], <<ArrMax(col) + 1, 1>>)

\* C5 as stated: for every positive n_cells each coordinate sequence has
\* length n_cells, is strictly increasing, starts at min(column) - 1 and ends
\* at max(column) + 1.
C5_AsStated ==
  GridBuilt => AxisSpans(xx, Column(X, 0)) /\ AxisSpans(yy, Column(X, 1))

\* C5 (amended): for n_cells >= 2 each coordinate sequence has length n_cells,
\* is strictly increasing, starts at min(column) - 1 and ends at
\* max(column) + 1; for n_cells = 1 it is the single element min(column) - 1.
C5_AxisSpansFromTwo ==
  GridBuilt =>
    IF n_cells >= 2
      THEN AxisSpans(xx, Column(X, 0)) /\ AxisSpans(yy, Column(X, 1))
      ELSE /\ DOMAIN xx = {0} /\ RatEq(xx[0], <<ArrMin(Column(X, 0)) - 1, 1>>)
           /\ DOMAIN yy = {0} /\ RatEq(yy[0], <<ArrMin(Column(X, 1)) - 1, 1>>)

W_C5 ==
  /\ GridBuilt /\ n_cells >= 3
  /\ ArrMin(Column(X, 0)) # ArrMax(Column(X, 0))
  /\ ArrMin(Column(X, 1)) = ArrMax(Column(X, 1))

\* C6: if predict raises on a cell, that invocation is the last one of the
\* call, the call has aborted with predict's own error, and no pyplot call
\* has been made; any pyplot call implies a complete grid.
C6_PredictErrorPropagates ==
  /\ \A k \in DOMAIN predict_log :
       PredictCall(predict, predict_log[k].arg).raised =>
         /\ k = Len(predict_log)
         /\ pc = "raised"
         /\ err = ErrPredict
         /\ plt_log = <<>>
  /\ plt_log # <<>> =>
       /\ Len(predict_log) = n_cells * n_cells
       /\ \A k \in DOMAIN predict_log : ~ PredictCall(predict, predict_log[k].arg).raised

W_C6 ==
  /\ pc = "raised" /\ err = ErrPredict /\ Len(predict_log) >= 2
  /\ plt_log = <<>>

\* C7: in a second call with the same arguments, the predict arguments so far
\* are a prefix of the first call's, and when the second call has ended its
\* grid and its sequence of predict arguments equal the first call's.
C7_SecondCallSame ==
  call_no = 2 =>
    /\ Len(predict_log) <= Len(prev.log)
    /\ \A k \in DOMAIN predict_log : predict_log[k] = prev.log[k]
    /\ Ended => y_hat = prev.y_hat /\ predict_log = prev.log

W_C7 ==
  /\ call_no = 2 /\ pc = "returned" /\ n_cells >= 2
  /\ \E r \in DOMAIN y_hat : \E c \in DOMAIN y_hat[r] : y_hat[r][c] = 1
  /\ y_hat = prev.y_hat

\* C8: when every cell has been written by the workers, in whatever order
\* they took them, the grid equals the one the sequential loop produced.
C8_AnyOrderSameGrid == ParDone => par_hat = y_hat

W_C8 == ParDone /\ n_cells >= 2 /\ par_hat[0][1] # par_hat[1][0]

\* C9: the pyplot calls made so far are a prefix of contourf, scatter, title,
\* show; contourf comes after all n_cells * n_cells predict invocations and
\* gets the full grid, scatter gets the feature columns and the labels, title
\* gets the title; the call has returned (None) exactly when show has been
\* called.
C9_RenderOrder ==
  /\ Len(plt_log) <= 4
  /\ \A k \in DOMAIN plt_log : plt_log[k].fn = RenderOrder[k]
  /\ plt_log # <<>> => LoopDone /\ Len(predict_log) = n_cells * n_cells
  /\ Len(plt_log) >= 1 => plt_log[1].a = <<xx, yy, y_hat>>
  /\ Len(plt_log) >= 2 => plt_log[2].a = <<Column(X, 0), Column(X, 1), Y.data>>
  /\ Len(plt_log) >= 3 => plt_log[3].a = <<title>>
  /\ pc = "scatter" => Len(plt_log) = 1
  /\ pc = "title" => Len(plt_log) = 2
  /\ pc = "show" => Len(plt_log) = 3
  /\ pc = "returned" <=> Len(plt_log) = 4
  /\ pc = "returned" <=> retval = "None"

W_C9 == pc = "returned" /\ PlotFns = RenderOrder /\ title = "Custom"

\* C10: with one or more violations the call aborts with the error of the
\* lowest-numbered violated check, and the checks evaluated are exactly
\* 1 .. that check, in order: no later check is evaluated.
C10_FirstViolationWins ==
  (InCall /\ Violations # {}) =>
    /\ Validating \/ pc = "raised"
    /\ \A k \in DOMAIN checked : checked[k] = k /\ k <= FirstViolation
    /\ pc = "raised" =>
         /\ err = ClassError(FirstViolation)
         /\ Len(checked) = FirstViolation

W_C10 ==
  /\ pc = "raised" /\ Violations = {2, 3, 4}
  /\ err = ErrYShape /\ checked = <<1, 2>>

====
